---- MODULE Spec2Model ----
(***************************************************************************)
(* Model of the virtual try-on proxy: the request handler of               *)
(* src/api/generate.js and of its "legacy RunPod" sibling                  *)
(* src/unnamed/part_000, and the rate limiter both share with the express  *)
(* middleware of src/unnamed/part_003.                                     *)
(*                                                                         *)
(* Time is in milliseconds.  pollInterval is a JavaScript Number that      *)
(* takes fractional values (24883.2, 29859.84); it is kept as a            *)
(* fixed-point value with denominator Scale.                               *)
(***************************************************************************)
EXTENDS Integers, Sequences, FiniteSets, TLC

VARIABLES
    variant,         \* which handler file is deployed
    nodeEnv,         \* process.env.NODE_ENV
    envConfigured,   \* RUNPOD_API_KEY && RUNPOD_API_URL
    imgbbApiKey,     \* process.env.IMGBB_API_KEY is set
    method,          \* req.method of the request being handled
    clientId,        \* req.ip of the request being handled
    requestCounts,   \* the rate-limit Map: client -> entry or Absent
    entryBefore,     \* the entry of the client when its request arrived
    passes,          \* per client: requests let through since the
                     \* firstRequest of its entry
    now,             \* Date.now()
    pc,              \* the await the handler is suspended at
    up,              \* per image: the position of uploadImageToHost
    runpodPayload,   \* input.model_img and input.cloth_img of the submit
    jobId,           \* runpodData.id
    startTime,       \* startTime of the poll loop
    pollInterval,    \* pollInterval of the poll loop (times Scale)
    responses,       \* everything sent on res, in order
    lastRead,        \* the last backend response the handler has read
    allPending,      \* every primary status answer so far was a successful
                     \* read of a non-terminal status
    prevPending,     \* the same, for the answers before the last one
    nSubmit,         \* submit requests sent to the backend
    nWait,           \* completed poll waits
    nStatus,         \* primary status queries sent
    nAlt,            \* alternate status queries sent
    nCatch,          \* poll iterations that entered catch (pollError)
    nSlow,           \* timers and fetches that were slow
    requestCounter,  \* requestCounter of the request id generator
    requestIdCache,  \* requestIdCache, in insertion order
    requestIds       \* every id generateRequestId has returned, in order

vars == <<variant, nodeEnv, envConfigured, imgbbApiKey, method, clientId,
          requestCounts, entryBefore, passes, now, pc, up, runpodPayload,
          jobId, startTime, pollInterval,
          responses, lastRead, allPending, prevPending,
          nSubmit, nWait, nStatus, nAlt, nCatch, nSlow,
          requestCounter, requestIdCache, requestIds>>

----------------------------------------------------------------------------
(* Bounds of the model *)

MaxPollErrors == 2      \* poll iterations of one request that enter catch
MaxSlow == 1            \* slow timers / slow status fetches of one request
MaxNow == 130000        \* the rate-limiter clock stops here
MaxConcNow == 61000     \* the same, with concurrent requests

(* Input sets *)

Variants == {"generate", "part000"}
Clients == {"10.0.0.1", "10.0.0.2"}
Methods == {"POST", "OPTIONS", "GET"}
Images == {"user", "clothing"}
SlowMs == {0, 35000}            \* extra delay of a timer or of a fetch
TickMs == {30000, 30001}        \* clock steps between two requests
GeneratedImage == "https://cdn.example/out.jpg"
NoImage == ""                   \* output[0].image missing (falsy)
Absent == [firstRequest |-> -1, count |-> 0]    \* key not in the Map

(* Program constants *)

RATE_LIMIT_WINDOW == 60 * 1000
MAX_REQUESTS_PER_WINDOW == 5
initialPollInterval == 10000
maxPollInterval == 30000
maxWaitTimeGenerate == 300000
maxWaitTimePart000 == 500000
Scale == 100

maxWaitTime == IF variant = "generate" THEN maxWaitTimeGenerate
                                       ELSE maxWaitTimePart000

----------------------------------------------------------------------------
(* String.prototype.includes *)
Includes(s, t) ==
    \E i \in 1..(Len(s) - Len(t) + 1) : SubSeq(s, i, i + Len(t) - 1) = t

Min(a, b) == IF a <= b THEN a ELSE b

(* Math.round(ms / 1000) for ms >= 0 *)
RoundSeconds(ms) == (ms + 500) \div 1000

(* TimerMs of a timer set without its delay *)
TimerMsNone(pi) == 0

(* TimerMs of a timer that fires after half of its delay *)
TimerMsHalf(pi) == ((pi + Scale - 1) \div Scale) \div 2

(* the delay of setTimeout(resolve, pollInterval): the timer does not fire  *)
(* before the whole interval has passed on the millisecond clock           *)
TimerMs(pi) == (pi + Scale - 1) \div Scale

----------------------------------------------------------------------------
(* Responses *)

RequestIdTag == "k3j9x2ab"      \* Math.random().toString(36).substr(2, 8)

Response(code, body) == [status |-> code, body |-> body]

SuccessResponse(image) ==
    Response(200, [success |-> TRUE, imageUrl |-> image])

TooManyRequests ==
    Response(429, [error |-> "Too many requests",
                   message |-> "Please wait before trying again"])

MethodNotAllowed == Response(405, [error |-> "Method not allowed"])

OptionsResponse == [status |-> 200]     \* res.status(200).end(): no body

ConfigError ==
    Response(500, [error |-> "Server configuration error",
                   message |-> "Missing API configuration"])

MissingImages ==
    Response(400, [error |-> "Both user image and clothing image are required"])

GenericMessage == "An error occurred during processing. Please try again."

(* Classify without the rule for upload errors *)
ClassifyNoUploadRule(msg) ==
    IF Includes(msg, "maxFileSize") \/ Includes(msg, "maxTotalFileSize")
       \/ Includes(msg, "LIMIT_FILE_SIZE") \/ Includes(msg, "File too large")
    THEN [statusCode |-> 413,
          errorMessage |-> "Image file too large. Please use images smaller than 4.5MB each. The app will automatically compress large images."]
    ELSE IF Includes(msg, "formidable") \/ Includes(msg, "parse")
    THEN [statusCode |-> 400,
          errorMessage |-> "Error processing uploaded images. Please try uploading different images."]
    ELSE IF Includes(msg, "RunPod") \/ Includes(msg, "API")
    THEN [statusCode |-> 502,
          errorMessage |-> "AI generation service temporarily unavailable. Please try again in a few minutes."]
    ELSE IF Includes(msg, "timeout") \/ Includes(msg, "TIMEOUT")
    THEN [statusCode |-> 408,
          errorMessage |-> "Processing took too long. Please try again with smaller images."]
    ELSE [statusCode |-> 500, errorMessage |-> GenericMessage]

(* the if / else-if chain over error.message of the legacy handler *)
Classify(msg) ==
    IF Includes(msg, "maxFileSize") \/ Includes(msg, "maxTotalFileSize")
       \/ Includes(msg, "LIMIT_FILE_SIZE") \/ Includes(msg, "File too large")
    THEN [statusCode |-> 413,
          errorMessage |-> "Image file too large. Please use images smaller than 4.5MB each. The app will automatically compress large images."]
    ELSE IF Includes(msg, "formidable") \/ Includes(msg, "parse")
    THEN [statusCode |-> 400,
          errorMessage |-> "Error processing uploaded images. Please try uploading different images."]
    ELSE IF Includes(msg, "upload") \/ Includes(msg, "hosting")
    THEN [statusCode |-> 502,
          errorMessage |-> "Error uploading images to processing service. Please try again."]
    ELSE IF Includes(msg, "RunPod") \/ Includes(msg, "API")
    THEN [statusCode |-> 502,
          errorMessage |-> "AI generation service temporarily unavailable. Please try again in a few minutes."]
    ELSE IF Includes(msg, "timeout") \/ Includes(msg, "TIMEOUT")
    THEN [statusCode |-> 408,
          errorMessage |-> "Processing took too long. Please try again with smaller images."]
    ELSE [statusCode |-> 500, errorMessage |-> GenericMessage]

(* a response sent by catch (error); cause is the error.message that was   *)
(* caught, kept on record beside what is sent                              *)
Caught(code, body, msg) == [status |-> code, body |-> body, cause |-> msg]

(* OuterCatch that sends details whatever NODE_ENV is *)
OuterCatchLeaks(msg) ==
    IF variant = "generate"
    THEN Caught(500, [error |-> "Failed to generate image",
                      message |-> GenericMessage], msg)
    ELSE LET c == Classify(msg) IN
         Caught(c.statusCode,
                [error |-> "Failed to generate image",
                 message |-> c.errorMessage,
                 requestId |-> RequestIdTag,
                 details |-> msg], msg)

(* catch (error) of the handler: the response sent for a thrown error *)
OuterCatch(msg) ==
    IF variant = "generate"
    THEN Caught(500, [error |-> "Failed to generate image",
                      message |-> GenericMessage], msg)
    ELSE LET c == Classify(msg) IN
         IF nodeEnv = "development"
         THEN Caught(c.statusCode,
                     [error |-> "Failed to generate image",
                      message |-> c.errorMessage,
                      requestId |-> RequestIdTag,
                      details |-> msg], msg)
         ELSE Caught(c.statusCode,
                     [error |-> "Failed to generate image",
                      message |-> c.errorMessage,
                      requestId |-> RequestIdTag], msg)

TimeoutMessage(elapsed) ==
    "Generation timed out after " \o ToString(RoundSeconds(elapsed)) \o " seconds"

----------------------------------------------------------------------------
(* Rate limiting: the clean-up loop and the check, for a request of client  *)
(* c at time t.  The result is the new Map and whether the request passes. *)

(* CleanUp that deletes an entry already at the end of its window *)
CleanUpEager(tbl, t) ==
    [k \in Clients |->
        IF tbl[k] # Absent /\ t - tbl[k].firstRequest >= RATE_LIMIT_WINDOW
        THEN Absent ELSE tbl[k]]

CleanUp(tbl, t) ==
    [k \in Clients |->
        IF tbl[k] # Absent /\ t - tbl[k].firstRequest > RATE_LIMIT_WINDOW
        THEN Absent ELSE tbl[k]]

(* RateLimit with a sliding window: a rejected request restarts the window *)
RateLimitSliding(tbl, c, t) ==
    LET cleaned == CleanUp(tbl, t)
        fresh == [cleaned EXCEPT ![c] = [firstRequest |-> t, count |-> 1]]
    IN  IF cleaned[c] # Absent
        THEN IF t - cleaned[c].firstRequest <= RATE_LIMIT_WINDOW
             THEN IF cleaned[c].count >= MAX_REQUESTS_PER_WINDOW
                  THEN [table |-> [cleaned EXCEPT ![c].firstRequest = t],
                        allowed |-> FALSE]
                  ELSE [table |-> [cleaned EXCEPT ![c].count = @ + 1],
                        allowed |-> TRUE]
             ELSE [table |-> fresh, allowed |-> TRUE]
        ELSE [table |-> fresh, allowed |-> TRUE]

(* RateLimit that rejects on the count alone, before looking at the window *)
RateLimitNoExpiry(tbl, c, t) ==
    LET fresh == [tbl EXCEPT ![c] = [firstRequest |-> t, count |-> 1]]
    IN  IF tbl[c] # Absent
        THEN IF tbl[c].count >= MAX_REQUESTS_PER_WINDOW
             THEN [table |-> tbl, allowed |-> FALSE]
             ELSE IF t - tbl[c].firstRequest <= RATE_LIMIT_WINDOW
             THEN [table |-> [tbl EXCEPT ![c].count = @ + 1],
                   allowed |-> TRUE]
             ELSE [table |-> fresh, allowed |-> TRUE]
        ELSE [table |-> fresh, allowed |-> TRUE]

(* RateLimit that rejects only above the maximum *)
RateLimitOffByOne(tbl, c, t) ==
    LET cleaned == CleanUp(tbl, t)
        fresh == [cleaned EXCEPT ![c] = [firstRequest |-> t, count |-> 1]]
    IN  IF cleaned[c] # Absent
        THEN IF t - cleaned[c].firstRequest <= RATE_LIMIT_WINDOW
             THEN IF cleaned[c].count > MAX_REQUESTS_PER_WINDOW
                  THEN [table |-> cleaned, allowed |-> FALSE]
                  ELSE [table |-> [cleaned EXCEPT ![c].count = @ + 1],
                        allowed |-> TRUE]
             ELSE [table |-> fresh, allowed |-> TRUE]
        ELSE [table |-> fresh, allowed |-> TRUE]

(* RateLimit that increments a copy of the entry: the Map keeps the old    *)
(* count of a request it lets through                                      *)
RateLimitCopy(tbl, c, t) ==
    LET cleaned == CleanUp(tbl, t)
        fresh == [cleaned EXCEPT ![c] = [firstRequest |-> t, count |-> 1]]
    IN  IF cleaned[c] # Absent
        THEN IF t - cleaned[c].firstRequest <= RATE_LIMIT_WINDOW
             THEN IF cleaned[c].count >= MAX_REQUESTS_PER_WINDOW
                  THEN [table |-> cleaned, allowed |-> FALSE]
                  ELSE [table |-> cleaned, allowed |-> TRUE]
             ELSE [table |-> fresh, allowed |-> TRUE]
        ELSE [table |-> fresh, allowed |-> TRUE]

(* RateLimit that counts a request in a running window twice *)
RateLimitDoubleCharge(tbl, c, t) ==
    LET cleaned == CleanUp(tbl, t)
        fresh == [cleaned EXCEPT ![c] = [firstRequest |-> t, count |-> 1]]
    IN  IF cleaned[c] # Absent
        THEN IF t - cleaned[c].firstRequest <= RATE_LIMIT_WINDOW
             THEN IF cleaned[c].count >= MAX_REQUESTS_PER_WINDOW
                  THEN [table |-> cleaned, allowed |-> FALSE]
                  ELSE [table |-> [cleaned EXCEPT ![c].count = @ + 2],
                        allowed |-> TRUE]
             ELSE [table |-> fresh, allowed |-> TRUE]
        ELSE [table |-> fresh, allowed |-> TRUE]

RateLimit(tbl, c, t) ==
    LET cleaned == CleanUp(tbl, t)
        fresh == [cleaned EXCEPT ![c] = [firstRequest |-> t, count |-> 1]]
    IN  IF cleaned[c] # Absent
        THEN IF t - cleaned[c].firstRequest <= RATE_LIMIT_WINDOW
             THEN IF cleaned[c].count >= MAX_REQUESTS_PER_WINDOW
                  THEN [table |-> cleaned, allowed |-> FALSE]
                  ELSE [table |-> [cleaned EXCEPT ![c].count = @ + 1],
                        allowed |-> TRUE]
             ELSE [table |-> fresh, allowed |-> TRUE]
        ELSE [table |-> fresh, allowed |-> TRUE]

(* the requests of each client that were let through since the           *)
(* firstRequest of the entry the Map now holds for it, after a request of  *)
(* client c got the result rl in the Map tbl                               *)
CountPass(p, tbl, rl, c) ==
    [k \in Clients |->
        IF rl.table[k] = Absent THEN 0
        ELSE IF k = c /\ rl.allowed
        THEN (IF tbl[k] # Absent
                 /\ tbl[k].firstRequest = rl.table[k].firstRequest
              THEN p[k] + 1 ELSE 1)
        ELSE p[k]]

----------------------------------------------------------------------------
(* What the collaborators can answer *)

StatusValues ==
    {"COMPLETED", "FAILED", "CANCELLED", "IN_PROGRESS", "IN_QUEUE", "undefined"}

(* messages of errors thrown by fetch() or by response.json() *)
FetchErrors ==
    {"fetch failed", "Unexpected token 'E', \"Error 404\" is not valid JSON"}

Reply(kind, code, status, id, image, message) ==
    [kind |-> kind, code |-> code, status |-> status, id |-> id,
     image |-> image, message |-> message]

Thrown(m) == Reply("throw", 0, "undefined", "", NoImage, m)

(* responses whose body parsed as JSON; image is output[0].image *)
JsonReplies(codes, statuses, ids) ==
    {r \in {Reply("json", c, st, id, im, "") :
                c \in codes, st \in statuses, id \in ids,
                im \in {NoImage, GeneratedImage}} :
        r.image # NoImage => r.status = "COMPLETED"}

(* answers of the status endpoints: a thrown error, a 200 with any status, *)
(* or a 404 whose JSON body carries a status                               *)
StatusReplies ==
    {Thrown(m) : m \in FetchErrors}
    \cup JsonReplies({200}, StatusValues \ {"undefined"}, {""})
    \cup JsonReplies({404}, {"COMPLETED", "IN_PROGRESS"}, {""})

SubmitReplies == {Thrown(m) : m \in FetchErrors}
                 \cup {Reply("abort", 0, "undefined", "", NoImage, "")}
                 \cup JsonReplies({200, 500}, StatusValues, {"", "job-1"})

Ok(r) == r.code >= 200 /\ r.code <= 299         \* response.ok

HasImage(r) == r.image # NoImage     \* output && output[0] && output[0].image

StatusText(code) ==
    IF code = 404 THEN "Not Found"
    ELSE IF code = 500 THEN "Internal Server Error" ELSE "OK"

(* a status answer that was read (the transport worked and, where the     *)
(* handler looks at it, the HTTP status was a success)                     *)
WasRead(r) == r.kind = "json" /\ (variant = "part000" => Ok(r))

(* a status answer read with a status after which polling goes on *)
IsPending(r) ==
    WasRead(r) /\ r.status \notin {"COMPLETED", "FAILED", "CANCELLED"}

NoRead == [src |-> "none", reply |-> Thrown("")]
Read(src, r) == [src |-> src, reply |-> r]

ParseErrors ==
    IF variant = "generate"
    THEN {"No boundary found in content-type"}
    ELSE {"options.maxFileSize (4718592 bytes) exceeded, received 4718593 bytes of file data",
          "bad content-type header, no multipart boundary"}

ParseResults ==
    {[kind |-> "throw", message |-> m, user |-> FALSE, clothing |-> FALSE] :
        m \in ParseErrors}
    \cup {[kind |-> "ok", message |-> "", user |-> u, clothing |-> c] :
            u \in BOOLEAN, c \in BOOLEAN}

UploadReplies == {[kind |-> "throw", success |-> FALSE],
                  [kind |-> "json", success |-> FALSE],
                  [kind |-> "json", success |-> TRUE]}

----------------------------------------------------------------------------
(* uploadImageToHost *)

(* at: where the call is; url: what it returned; tried: the providers it   *)
(* contacted; primary, secondary: what ImgBB and Imgur answered            *)
NotStarted == [at |-> "idle", url |-> "", tried |-> <<>>,
               primary |-> "none", secondary |-> "none"]

(* the call up to its first await: ImgBB when the key is set, else Imgur *)
StartUpload ==
    IF imgbbApiKey
    THEN [NotStarted EXCEPT !.at = "imgbb", !.tried = <<"imgbb">>]
    ELSE [NotStarted EXCEPT !.at = "imgur", !.tried = <<"imgur">>]

(* the answer r of the provider the call waits for, put on record *)
Heard(u, r) ==
    LET outcome == IF r.kind = "json" /\ r.success THEN "ok" ELSE "failed"
    IN  IF u.at = "imgbb" THEN [u EXCEPT !.primary = outcome]
        ELSE [u EXCEPT !.secondary = outcome]

(* uploadImageToHost that falls back to Imgur only when ImgBB threw *)
uploadImageToHostNoRetry(u, i, r) ==
    IF r.kind = "json" /\ r.success
    THEN [Heard(u, r) EXCEPT !.at = "ok",
                             !.url = "https://" \o u.at \o "/" \o i]
    ELSE IF u.at = "imgbb" /\ r.kind = "throw"
         THEN [Heard(u, r) EXCEPT !.at = "imgur",
                                  !.tried = Append(@, "imgur")]
         ELSE [Heard(u, r) EXCEPT !.at = "failed"]

(* uploadImageToHost that returns from ImgBB only *)
uploadImageToHostPrimaryOnly(u, i, r) ==
    IF r.kind = "json" /\ r.success /\ u.at = "imgbb"
    THEN [Heard(u, r) EXCEPT !.at = "ok",
                             !.url = "https://" \o u.at \o "/" \o i]
    ELSE IF u.at = "imgbb"
         THEN [Heard(u, r) EXCEPT !.at = "imgur",
                                  !.tried = Append(@, "imgur")]
         ELSE [Heard(u, r) EXCEPT !.at = "failed"]

(* uploadImageToHost that goes back to ImgBB once when Imgur fails *)
uploadImageToHostRetry(u, i, r) ==
    IF r.kind = "json" /\ r.success
    THEN [Heard(u, r) EXCEPT !.at = "ok",
                             !.url = "https://" \o u.at \o "/" \o i]
    ELSE IF u.at = "imgbb"
         THEN [Heard(u, r) EXCEPT !.at = "imgur",
                                  !.tried = Append(@, "imgur")]
         ELSE IF Len(u.tried) = 2
         THEN [Heard(u, r) EXCEPT !.at = "imgbb",
                                  !.tried = Append(@, "imgbb")]
         ELSE [Heard(u, r) EXCEPT !.at = "failed"]

(* the call from the answer r of the provider it waits for to its next     *)
(* await, its return ("ok") or its throw ("failed")                        *)
uploadImageToHost(u, i, r) ==
    IF r.kind = "json" /\ r.success
    THEN [Heard(u, r) EXCEPT !.at = "ok",
                             !.url = "https://" \o u.at \o "/" \o i]
    ELSE IF u.at = "imgbb"
         THEN [Heard(u, r) EXCEPT !.at = "imgur",
                                  !.tried = Append(@, "imgur")]
         ELSE [Heard(u, r) EXCEPT !.at = "failed"]

NoPayload == [model_img |-> "", cloth_img |-> ""]

(* Payload with the two URLs the wrong way round *)
PayloadSwapped(u) ==
    [model_img |-> u["clothing"].url, cloth_img |-> u["user"].url]

(* the URLs put into runpodPayload.input *)
Payload(u) ==
    [model_img |-> u["user"].url, cloth_img |-> u["clothing"].url]

AllUploadsFailed == "All image upload services failed"

(* the message thrown to the handler's catch when the uploads fail *)
UploadFailure(m) ==
    IF variant = "generate" THEN m
    ELSE "Image upload failed: " \o m
         \o ". Please try again or use smaller images."

----------------------------------------------------------------------------
(* The request id generator of the legacy handler *)

CounterWrap == 4        \* requestCounter wraps here (1000000 in the source)
CacheSize == 2          \* ids the cache may hold (MAX_CACHE_SIZE, 10000)
EvictCount == 1         \* ids deleted when the cache is full (1000)
MaxCalls == 5           \* calls of generateRequestId that are followed

maxAttempts == 10

(* Date.now() *)
Timestamps == {"1700000000000", "1700000000001"}
(* hrTime.toString().slice(-6) *)
HrTimes == {"123456"}
(* crypto.randomBytes(16).toString('hex') *)
RandomHex == {"00000000000000000000000000000000",
              "ffffffffffffffffffffffffffffffff"}
(* crypto.randomBytes(8).toString('hex') *)
ExtraRandom == {"a1a1a1a1a1a1a1a1"}

RECURSIVE padStart(_, _, _)
padStart(str, n, fill) ==
    IF Len(str) >= n THEN str ELSE padStart(fill \o str, n, fill)

(* the id built before the loop *)
FirstId(ts, hr, c, rnd) ==
    "req-" \o ts \o "-" \o hr \o "-" \o padStart(ToString(c), 6, "0")
           \o "-" \o SubSeq(rnd, 1, 12)

(* the id built in the loop *)
RetryId(ts, hr, c, extra) ==
    "req-" \o ts \o "-" \o hr \o "-" \o ToString(c) \o "-" \o extra

(* requestIdCache.has(id) *)
Has(cache, id) == \E k \in 1..Len(cache) : cache[k] = id

(* the while loop: a new id as long as the id is in the cache, ten times   *)
(* at most                                                                 *)
RECURSIVE Regenerate(_, _, _, _)
Regenerate(cache, id, retry, attempts) ==
    IF Has(cache, id) /\ attempts < maxAttempts
    THEN Regenerate(cache, retry, retry, attempts + 1)
    ELSE id

(* requestIdCache.add(id) *)
Add(cache, id) == IF Has(cache, id) THEN cache ELSE Append(cache, id)

(* the oldest ids are deleted when the cache has grown over its size *)
Evict(cache) ==
    IF Len(cache) > CacheSize
    THEN SubSeq(cache, Min(EvictCount, Len(cache)) + 1, Len(cache))
    ELSE cache

(* one call: the new counter, the new cache and the id returned *)
generateRequestId(counter, cache, ts, hr, rnd, extra) ==
    LET c == (counter + 1) % CounterWrap
        id == Regenerate(cache, FirstId(ts, hr, c, rnd),
                         RetryId(ts, hr, c, extra), 0)
    IN [requestCounter |-> c,
        requestIdCache |-> Evict(Add(cache, id)),
        requestId |-> id]

----------------------------------------------------------------------------
limiter == <<requestCounts, entryBefore, passes>>
config == <<variant, nodeEnv, envConfigured, imgbbApiKey, method, clientId>>
poll == <<jobId, startTime, pollInterval>>
pending == <<allPending, prevPending>>
counters == <<nSubmit, nWait, nStatus, nAlt, nCatch, nSlow>>
ids == <<requestCounter, requestIdCache, requestIds>>

(* the call of generateRequestId that builds request_id of the payload;   *)
(* the other handler has a generator without state                        *)
NewRequestId(ts) ==
    IF variant = "part000"
    THEN \E hr \in HrTimes, rnd \in RandomHex, extra \in ExtraRandom :
            LET g == generateRequestId(requestCounter, requestIdCache,
                                       ts, hr, rnd, extra) IN
            /\ requestCounter' = g.requestCounter
            /\ requestIdCache' = g.requestIdCache
            /\ requestIds' = Append(requestIds, g.requestId)
    ELSE UNCHANGED ids

(* the process before the first call of generateRequestId *)
NoCalls ==
    /\ requestCounter = 0
    /\ requestIdCache = <<>>
    /\ requestIds = <<>>

Respond(r) == responses' = Append(responses, r)

(* a throw that escapes the handler: nothing is sent *)
ThrowUnhandled(msg) == /\ UNCHANGED responses
                       /\ pc' = "done"

(* throw reaching catch (error) of the handler *)
Throw(msg) == /\ Respond(OuterCatch(msg))
              /\ pc' = "done"

TypeOK ==
    /\ variant \in Variants
    /\ pc \in {"idle", "parse", "upload", "submit", "wait", "status", "alt", "done"}
    /\ now \in Nat /\ startTime \in Nat /\ pollInterval \in Nat
    /\ Len(responses) \in 0..2

Init ==
    /\ variant \in Variants
    /\ nodeEnv \in (IF variant = "generate" THEN {"production"}
                    ELSE {"production", "development"})
    /\ envConfigured \in BOOLEAN
    /\ imgbbApiKey \in BOOLEAN
    /\ method \in Methods
    /\ clientId = "10.0.0.1"
    /\ requestCounts \in
         {[k \in Clients |-> Absent],
          [k \in Clients |-> IF k = "10.0.0.1"
                             THEN [firstRequest |-> 0,
                                   count |-> MAX_REQUESTS_PER_WINDOW]
                             ELSE Absent]}
    /\ entryBefore = Absent
    /\ passes = [k \in Clients |-> requestCounts[k].count]
    /\ now = 0
    /\ pc = "idle"
    /\ up = [i \in Images |-> NotStarted]
    /\ runpodPayload = NoPayload
    /\ jobId = ""
    /\ startTime = 0
    /\ pollInterval = 0
    /\ responses = <<>>
    /\ lastRead = NoRead
    /\ allPending = TRUE
    /\ prevPending = TRUE
    /\ nSubmit = 0 /\ nWait = 0 /\ nStatus = 0 /\ nAlt = 0
    /\ nCatch = 0 /\ nSlow = 0
    /\ NoCalls

(* MethodDispatch that lets GET through with POST *)
MethodDispatchAllowsGet(m) ==
    IF m = "OPTIONS" THEN "preflight"
    ELSE IF m # "POST" /\ m # "GET" THEN "reject"
    ELSE "handle"

(* the two method checks at the head of the handler *)
MethodDispatch(m) ==
    IF m = "OPTIONS" THEN "preflight"
    ELSE IF m # "POST" THEN "reject"
    ELSE "handle"

(* handler, from its entry to the first await: method dispatch, the        *)
(* configuration check, rate limiting, and the start of form parsing       *)
Arrive ==
    /\ pc = "idle"
    /\ IF MethodDispatch(method) = "preflight"
       THEN /\ Respond(OptionsResponse) /\ pc' = "done"
            /\ UNCHANGED limiter
       ELSE IF MethodDispatch(method) = "reject"
       THEN /\ Respond(MethodNotAllowed) /\ pc' = "done"
            /\ UNCHANGED limiter
       ELSE IF ~envConfigured
       THEN /\ Respond(ConfigError) /\ pc' = "done"
            /\ UNCHANGED limiter
       ELSE LET rl == RateLimit(requestCounts, clientId, now) IN
            /\ requestCounts' = rl.table
            /\ entryBefore' = requestCounts[clientId]
            /\ passes' = CountPass(passes, requestCounts, rl, clientId)
            /\ IF rl.allowed
               THEN pc' = "parse" /\ UNCHANGED responses
               ELSE Respond(TooManyRequests) /\ pc' = "done"
    /\ UNCHANGED <<config, now, up, runpodPayload, ids, poll, lastRead, pending,
                   counters>>

(* the form parser returns: validation, then both uploads are started *)
ParseDone ==
    /\ pc = "parse"
    /\ \E r \in ParseResults :
        IF r.kind = "throw"
        THEN Throw(r.message) /\ UNCHANGED up
        ELSE IF ~r.user \/ ~r.clothing
        THEN Respond(MissingImages) /\ pc' = "done" /\ UNCHANGED up
        ELSE /\ up' = [i \in Images |-> StartUpload]
             /\ pc' = "upload"
             /\ UNCHANGED responses
    /\ UNCHANGED <<config, limiter, now, runpodPayload, ids, poll, lastRead,
                   pending, counters>>

(* a hosting provider answers one of the uploads.  Promise.all rejects on  *)
(* the first upload that throws; when both have returned the submit        *)
(* request is sent.  An upload goes on after the handler has left.         *)
UploadReply ==
    \E i \in Images, r \in UploadReplies :
        /\ up[i].at \in {"imgbb", "imgur"}
        /\ up' = [up EXCEPT ![i] = uploadImageToHost(up[i], i, r)]
        /\ IF pc # "upload"
           THEN UNCHANGED <<pc, responses, nSubmit, runpodPayload, ids>>
           ELSE IF up'[i].at = "failed"
           THEN /\ Throw(UploadFailure(AllUploadsFailed))
                /\ UNCHANGED <<nSubmit, runpodPayload, ids>>
           ELSE IF \A j \in Images : up'[j].at = "ok"
           THEN /\ runpodPayload' = Payload(up')
                /\ NewRequestId(ToString(now))
                /\ pc' = "submit"
                /\ nSubmit' = nSubmit + 1
                /\ UNCHANGED responses
           ELSE UNCHANGED <<pc, responses, nSubmit, runpodPayload, ids>>
        /\ UNCHANGED <<config, limiter, now, poll, lastRead, pending,
                       nWait, nStatus, nAlt, nCatch, nSlow>>

uploadTimeoutMs == 90000

(* the 90 s timer raced against the uploads (legacy handler only) *)
UploadTimeout ==
    /\ pc = "upload"
    /\ variant = "part000"
    /\ now' = now + uploadTimeoutMs
    /\ Throw(UploadFailure("Image upload timeout after 90 seconds"))
    /\ UNCHANGED <<config, limiter, up, runpodPayload, ids, poll, lastRead,
                   pending, counters>>

----------------------------------------------------------------------------
(* Job submission *)

(* the error thrown before the status of the submit response is looked at, *)
(* "" when there is none                                                   *)
SubmitError(r) ==
    IF variant = "generate"
    THEN (IF r.kind = "throw" THEN r.message ELSE "")
    ELSE IF r.kind = "abort"
    THEN "RunPod API initial request timeout - service may be overloaded"
    ELSE IF r.kind = "throw"
    THEN "RunPod API connection error: " \o r.message
    ELSE IF ~Ok(r)
    THEN "RunPod API error: " \o ToString(r.code) \o " " \o StatusText(r.code)
         \o " - " \o r.message
    ELSE ""

(* ImmediateCompletion with the test left out *)
ImmediateCompletionNever(r) == FALSE

(* the test "completed immediately" on the submit response *)
ImmediateCompletion(r) == r.status = "COMPLETED" /\ HasImage(r)

(* StartsPolling that also polls a queued job *)
StartsPollingQueued(r) == r.status \in {"IN_PROGRESS", "IN_QUEUE"}

(* if (runpodData.status === 'IN_PROGRESS') *)
StartsPolling(r) == r.status = "IN_PROGRESS"

(* HasJobId with the test left out *)
HasJobIdUnchecked(r) == TRUE

(* the negation of if (!jobId) on runpodData.id *)
HasJobId(r) == r.id # ""

(* LoopTop that gives up when another initial wait would pass the budget *)
LoopTopEarly(t, start) ==
    IF t - start + initialPollInterval < maxWaitTime
    THEN pc' = "wait" /\ UNCHANGED responses
    ELSE Throw(TimeoutMessage(t - start))

(* while (Date.now() - startTime < maxWaitTime), evaluated at time t; when *)
(* the test fails the timeout error is thrown to the handler's catch       *)
LoopTop(t, start) ==
    IF t - start < maxWaitTime
    THEN pc' = "wait" /\ UNCHANGED responses
    ELSE Throw(TimeoutMessage(t - start))

(* the submit request is answered: from await fetch(RUNPOD_API_URL) to the *)
(* first poll wait, or to the response                                     *)
SubmitReply ==
    /\ pc = "submit"
    /\ \E r \in SubmitReplies :
        /\ r.kind = "abort" => variant = "part000"
        /\ lastRead' = Read("submit", r)
        /\ IF SubmitError(r) # ""
           THEN Throw(SubmitError(r)) /\ UNCHANGED poll
           ELSE IF ImmediateCompletion(r)
           THEN /\ Respond(SuccessResponse(r.image)) /\ pc' = "done"
                /\ UNCHANGED poll
           ELSE IF StartsPolling(r)
           THEN IF ~HasJobId(r)
                THEN Throw("No job ID received from RunPod") /\ UNCHANGED poll
                ELSE /\ jobId' = r.id
                     /\ startTime' = now
                     /\ pollInterval' = initialPollInterval * Scale
                     /\ LoopTop(now, now)
           ELSE IF r.status = "FAILED"
           THEN Throw("Generation failed on RunPod server") /\ UNCHANGED poll
           ELSE IF r.status = "CANCELLED"
           THEN Throw("Generation was cancelled") /\ UNCHANGED poll
           ELSE /\ Throw("Unexpected response status: " \o r.status)
                /\ UNCHANGED poll
    /\ UNCHANGED <<config, limiter, now, up, runpodPayload, ids, pending,
                   counters>>

----------------------------------------------------------------------------
(* The poll loop *)

(* NextPollInterval without the ceiling *)
NextPollIntervalUncapped(pi) == (pi * 12) \div 10

(* Math.min(pollInterval * 1.2, maxPollInterval) *)
NextPollInterval(pi) == Min((pi * 12) \div 10, maxPollInterval * Scale)

(* PollError with the image test of COMPLETED inverted *)
PollErrorInverted(r) ==
    IF r.kind = "throw" THEN r.message
    ELSE IF variant = "part000" /\ ~Ok(r)
    THEN "Status check failed: " \o ToString(r.code)
    ELSE IF r.status = "COMPLETED" /\ HasImage(r)
    THEN "Completed but no image URL in response"
    ELSE IF r.status = "FAILED" THEN "Generation failed on RunPod server"
    ELSE IF r.status = "CANCELLED" THEN "Generation was cancelled"
    ELSE ""

(* PollError that lets only IN_PROGRESS continue *)
PollErrorStrict(r) ==
    IF r.kind = "throw" THEN r.message
    ELSE IF variant = "part000" /\ ~Ok(r)
    THEN "Status check failed: " \o ToString(r.code)
    ELSE IF r.status = "COMPLETED" /\ ~HasImage(r)
    THEN "Completed but no image URL in response"
    ELSE IF r.status = "FAILED" THEN "Generation failed on RunPod server"
    ELSE IF r.status = "CANCELLED" THEN "Generation was cancelled"
    ELSE IF r.status # "IN_PROGRESS" /\ r.status # "COMPLETED"
    THEN "Unexpected status: " \o r.status
    ELSE ""

(* the error a primary status answer throws inside try, "" when none *)
PollError(r) ==
    IF r.kind = "throw" THEN r.message
    ELSE IF variant = "part000" /\ ~Ok(r)
    THEN "Status check failed: " \o ToString(r.code)
    ELSE IF r.status = "COMPLETED" /\ ~HasImage(r)
    THEN "Completed but no image URL in response"
    ELSE IF r.status = "FAILED" THEN "Generation failed on RunPod server"
    ELSE IF r.status = "CANCELLED" THEN "Generation was cancelled"
    ELSE ""

(* catch (pollError): is the alternate status URL queried? *)
TriesAlternate(msg) ==
    IF variant = "generate" THEN Includes(msg, "404") ELSE TRUE

(* AltSucceeds without the test of the image *)
AltSucceedsAnyCompleted(r) ==
    /\ r.kind = "json"
    /\ variant = "part000" => Ok(r)
    /\ r.status = "COMPLETED"

(* does an answer of the alternate status URL end the loop with success? *)
AltSucceeds(r) ==
    /\ r.kind = "json"
    /\ variant = "part000" => Ok(r)
    /\ r.status = "COMPLETED"
    /\ HasImage(r)

(* ContinueDespiteError that submits the job again *)
ResubmitOnError(msg, t) == pc' = "submit" /\ UNCHANGED responses

(* ContinueDespiteError that ends the request with a failure *)
GiveUp(msg, t) == Throw("Generation failed on RunPod server")

(* ContinueDespiteError that rethrows to the handler's catch *)
Rethrow(msg, t) == Throw(msg)

(* the end of catch (pollError): the error msg is dropped and the loop     *)
(* test is evaluated again, at time t                                      *)
ContinueDespiteError(msg, t) == LoopTop(t, startTime)

(* the timer of await new Promise(resolve => setTimeout(resolve,           *)
(* pollInterval)) fires and the primary status query is sent               *)
TimerFires ==
    /\ pc = "wait"
    /\ \E d \in SlowMs :
        /\ d # 0 => nSlow < MaxSlow
        /\ nSlow' = IF d # 0 THEN nSlow + 1 ELSE nSlow
        /\ now' = now + TimerMs(pollInterval) + d
    /\ nWait' = nWait + 1
    /\ nStatus' = nStatus + 1
    /\ pc' = "status"
    /\ UNCHANGED <<config, limiter, up, runpodPayload, ids, poll, responses,
                   lastRead, pending, nSubmit, nAlt, nCatch>>

(* the primary status query is answered: the try block, the start of catch *)
(* and, unless the alternate URL is queried, the loop test                 *)
StatusReply ==
    /\ pc = "status"
    /\ \E r \in StatusReplies, d \in SlowMs :
        /\ d # 0 => nSlow < MaxSlow
        /\ nSlow' = IF d # 0 THEN nSlow + 1 ELSE nSlow
        /\ now' = now + d
        /\ lastRead' = Read("status", r)
        /\ allPending' = (allPending /\ IsPending(r))
        /\ prevPending' = allPending
        /\ IF PollError(r) = ""
           THEN /\ UNCHANGED <<nCatch, nAlt>>
                /\ IF r.status = "COMPLETED"
                   THEN /\ Respond(SuccessResponse(r.image)) /\ pc' = "done"
                        /\ UNCHANGED pollInterval
                   ELSE /\ pollInterval' = NextPollInterval(pollInterval)
                        /\ LoopTop(now', startTime)
           ELSE /\ nCatch < MaxPollErrors
                /\ nCatch' = nCatch + 1
                /\ UNCHANGED pollInterval
                /\ IF TriesAlternate(PollError(r))
                   THEN /\ pc' = "alt" /\ nAlt' = nAlt + 1
                        /\ UNCHANGED responses
                   ELSE /\ ContinueDespiteError(PollError(r), now')
                        /\ UNCHANGED nAlt
    /\ UNCHANGED <<config, limiter, up, runpodPayload, ids, jobId, startTime,
                   nSubmit, nWait, nStatus>>

(* the alternate status query is answered: the rest of catch (pollError)   *)
(* and the loop test                                                       *)
AltReply ==
    /\ pc = "alt"
    /\ \E r \in StatusReplies, d \in SlowMs :
        /\ d # 0 => nSlow < MaxSlow
        /\ nSlow' = IF d # 0 THEN nSlow + 1 ELSE nSlow
        /\ now' = now + d
        /\ lastRead' = Read("alt", r)
        /\ IF AltSucceeds(r)
           THEN Respond(SuccessResponse(r.image)) /\ pc' = "done"
           ELSE ContinueDespiteError(r.message, now')
    /\ UNCHANGED <<config, limiter, up, runpodPayload, ids, poll, pending,
                   nSubmit, nWait, nStatus, nAlt, nCatch>>

Next ==
    \/ Arrive
    \/ ParseDone
    \/ UploadReply
    \/ UploadTimeout
    \/ SubmitReply
    \/ TimerFires
    \/ StatusReply
    \/ AltReply

Spec == Init /\ [][Next]_vars

----------------------------------------------------------------------------
(* Progress.  What the runtime guarantees: the form parser returns, a      *)
(* timer that was set fires, and so does the abort of the legacy submit    *)
(* request.  A hosting provider or the backend may never answer.           *)

SubmitAbort ==
    /\ SubmitReply
    /\ lastRead'.reply.kind = "abort"

SpecLive ==
    /\ Init /\ [][Next]_vars
    /\ WF_vars(ParseDone)
    /\ WF_vars(UploadTimeout)
    /\ WF_vars(SubmitAbort)
    /\ WF_vars(TimerFires)

----------------------------------------------------------------------------
(* The handler up to the moment the submit request is sent *)

NextUpload ==
    \/ Arrive
    \/ ParseDone
    \/ UploadReply
    \/ UploadTimeout

SpecUpload == Init /\ [][NextUpload]_vars

----------------------------------------------------------------------------
(* The job lifecycle on its own: the handler from the moment the submit    *)
(* request has been sent (both images uploaded through ImgBB).             *)

InitPoll ==
    /\ variant \in Variants
    /\ nodeEnv \in (IF variant = "generate" THEN {"production"}
                    ELSE {"production", "development"})
    /\ envConfigured = TRUE
    /\ imgbbApiKey = TRUE
    /\ method = "POST"
    /\ clientId = "10.0.0.1"
    /\ requestCounts = [k \in Clients |->
                          IF k = "10.0.0.1"
                          THEN [firstRequest |-> 0, count |-> 1] ELSE Absent]
    /\ entryBefore = Absent
    /\ passes = [k \in Clients |-> requestCounts[k].count]
    /\ now = 0
    /\ pc = "submit"
    /\ up = [i \in Images |->
               [at |-> "ok", url |-> "https://imgbb/" \o i,
                tried |-> <<"imgbb">>,
                primary |-> "ok", secondary |-> "none"]]
    /\ runpodPayload = Payload(up)
    /\ jobId = ""
    /\ startTime = 0
    /\ pollInterval = 0
    /\ responses = <<>>
    /\ lastRead = NoRead
    /\ allPending = TRUE
    /\ prevPending = TRUE
    /\ nSubmit = 1 /\ nWait = 0 /\ nStatus = 0 /\ nAlt = 0
    /\ nCatch = 0 /\ nSlow = 0
    /\ requestCounter = (IF variant = "part000" THEN 1 ELSE 0)
    /\ requestIds = (IF variant = "part000"
                     THEN <<FirstId("0", "123456", 1, "000000000000")>>
                     ELSE <<>>)
    /\ requestIdCache = requestIds

NextPoll ==
    \/ SubmitReply
    \/ TimerFires
    \/ StatusReply
    \/ AltReply

SpecPoll == InitPoll /\ [][NextPoll]_vars

(* the same, when every outbound call returns and every timer fires *)
SpecPollLive ==
    /\ InitPoll /\ [][NextPoll]_vars
    /\ WF_vars(SubmitReply)
    /\ WF_vars(TimerFires)
    /\ WF_vars(StatusReply)
    /\ WF_vars(AltReply)

----------------------------------------------------------------------------
(* The rate limiter on its own: a stream of requests, each followed up to  *)
(* the end of the synchronous prefix of its handler.                       *)

InitRL ==
    /\ variant \in Variants
    /\ nodeEnv = "production"
    /\ envConfigured = TRUE
    /\ imgbbApiKey = TRUE
    /\ method \in Methods
    /\ clientId \in Clients
    /\ requestCounts = [k \in Clients |-> Absent]
    /\ entryBefore = Absent
    /\ passes = [k \in Clients |-> requestCounts[k].count]
    /\ now = 0
    /\ pc = "idle"
    /\ up = [i \in Images |-> NotStarted]
    /\ runpodPayload = NoPayload
    /\ jobId = ""
    /\ startTime = 0
    /\ pollInterval = 0
    /\ responses = <<>>
    /\ lastRead = NoRead
    /\ allPending = TRUE
    /\ prevPending = TRUE
    /\ nSubmit = 0 /\ nWait = 0 /\ nStatus = 0 /\ nAlt = 0
    /\ nCatch = 0 /\ nSlow = 0
    /\ NoCalls

(* the next request reaches the handler, some time after the previous one  *)
NewRequest ==
    /\ pc # "idle"
    /\ \E d \in {0} \cup TickMs :
        /\ now + d <= MaxNow
        /\ now' = now + d
    /\ method' \in Methods
    /\ clientId' \in Clients
    /\ pc' = "idle"
    /\ responses' = <<>>
    /\ entryBefore' = Absent
    /\ UNCHANGED <<variant, nodeEnv, envConfigured, imgbbApiKey,
                   requestCounts, passes, up, runpodPayload, ids, poll, lastRead,
                   pending, counters>>

NextRL ==
    \/ NewRequest
    \/ Arrive

SpecRL == InitRL /\ [][NextRL]_vars

----------------------------------------------------------------------------
(* Concurrent requests.  A handler runs without interruption from one      *)
(* await to the next, so the handlers of concurrent requests interleave at *)
(* the awaits only.  One request is followed through its awaits up to the  *)
(* submit request; at any of them, and before and after, the synchronous   *)
(* prefix of the handler of another POST runs.                             *)

InitConc ==
    /\ variant \in Variants
    /\ nodeEnv = "production"
    /\ envConfigured = TRUE
    /\ imgbbApiKey = FALSE
    /\ method = "POST"
    /\ clientId \in Clients
    /\ requestCounts = [k \in Clients |-> Absent]
    /\ entryBefore = Absent
    /\ passes = [k \in Clients |-> requestCounts[k].count]
    /\ now = 0
    /\ pc = "idle"
    /\ up = [i \in Images |-> NotStarted]
    /\ runpodPayload = NoPayload
    /\ jobId = ""
    /\ startTime = 0
    /\ pollInterval = 0
    /\ responses = <<>>
    /\ lastRead = NoRead
    /\ allPending = TRUE
    /\ prevPending = TRUE
    /\ nSubmit = 0 /\ nWait = 0 /\ nStatus = 0 /\ nAlt = 0
    /\ nCatch = 0 /\ nSlow = 0
    /\ NoCalls

(* the handler of another request, of client c, runs from its entry to its *)
(* first await                                                             *)
ConcurrentArrival ==
    \E c \in Clients, d \in {0} \cup TickMs :
        LET rl == RateLimit(requestCounts, c, now + d) IN
        /\ now + d <= MaxConcNow
        /\ now' = now + d
        /\ requestCounts' = rl.table
        /\ passes' = CountPass(passes, requestCounts, rl, c)
        /\ UNCHANGED <<config, entryBefore, pc, up, runpodPayload, ids, poll,
                       responses, lastRead, pending, counters>>

NextConc ==
    \/ Arrive
    \/ ParseDone
    \/ UploadReply
    \/ UploadTimeout
    \/ ConcurrentArrival

SpecConc == InitConc /\ [][NextConc]_vars

----------------------------------------------------------------------------
(* The request id generator on its own: a process that calls               *)
(* generateRequestId again and again, with any clock and any random bytes. *)

InitId ==
    /\ InitRL
    /\ variant = "part000"
    /\ method = "POST"
    /\ clientId = "10.0.0.1"

GenerateCall ==
    /\ Len(requestIds) < MaxCalls
    /\ \E ts \in Timestamps, hr \in HrTimes,
          rnd \in RandomHex, extra \in ExtraRandom :
          LET g == generateRequestId(requestCounter, requestIdCache,
                                     ts, hr, rnd, extra) IN
          /\ requestCounter' = g.requestCounter
          /\ requestIdCache' = g.requestIdCache
          /\ requestIds' = Append(requestIds, g.requestId)
    /\ UNCHANGED <<config, limiter, now, pc, up, runpodPayload, poll,
                   responses, lastRead, pending, counters>>

NextId == GenerateCall

SpecId == InitId /\ [][NextId]_vars

----------------------------------------------------------------------------
(* Properties of the job lifecycle (SpecPoll) *)

PrimaryRead == lastRead.src = "status" /\ WasRead(lastRead.reply)
Polling == jobId # ""
Elapsed == now - startTime
IsFailure(resp) == resp.status >= 400
IsSuccess(resp) ==
    /\ "body" \in DOMAIN resp
    /\ "success" \in DOMAIN resp.body
    /\ resp.body.success

(* C1: whenever a primary status read returns FAILED or CANCELLED the loop *)
(* ends in that iteration (no further wait, no further query) and the     *)
(* caller has received a failure response.                                 *)
C1_FailedOrCancelledEndsLoop ==
    (PrimaryRead /\ lastRead.reply.status \in {"FAILED", "CANCELLED"})
        => /\ pc = "done"
           /\ Len(responses) = 1
           /\ IsFailure(responses[1])

(* C2: a primary status read of COMPLETED without an image is a terminal   *)
(* failure: the loop stops in that iteration and the caller has received a *)
(* failure response.                                                       *)
C2_CompletedWithoutImageEndsLoop ==
    (PrimaryRead /\ lastRead.reply.status = "COMPLETED"
                 /\ lastRead.reply.image = NoImage)
        => /\ pc = "done"
           /\ Len(responses) = 1
           /\ IsFailure(responses[1])

(* C3: a primary status read of COMPLETED with an image ends the loop at   *)
(* once with {success: true, imageUrl: that image}; nothing follows.       *)
C3_CompletedWithImageSucceeds ==
    (PrimaryRead /\ lastRead.reply.status = "COMPLETED"
                 /\ lastRead.reply.image # NoImage)
        => /\ pc = "done"
           /\ responses = <<SuccessResponse(lastRead.reply.image)>>
           /\ nStatus = nWait

C3_Witness ==
    /\ PrimaryRead /\ lastRead.reply.status = "COMPLETED"
    /\ lastRead.reply.image = GeneratedImage
    /\ pc = "done" /\ nStatus >= 2

(* C4: a status query that fails in transport (primary, or alternate when  *)
(* one is made) sends no response and does not end the job: as long as the *)
(* budget test passes the loop goes on waiting and querying.               *)
C4_TransportFailureContinues ==
    (lastRead.src \in {"status", "alt"} /\ lastRead.reply.kind = "throw"
     /\ Elapsed < maxWaitTime)
        => responses = <<>> /\ pc \in {"alt", "wait", "status"}

C4_Witness ==
    /\ lastRead.src = "alt" /\ lastRead.reply.kind = "throw"
    /\ pc = "status" /\ nAlt >= 1 /\ nStatus > nCatch

(* C5: pollInterval never decreases from one step to the next, and once    *)
(* polling has started 10000 <= pollInterval <= 30000 ms.                  *)
C5_PollIntervalMonotoneBounded ==
    [][/\ pollInterval' >= pollInterval
       /\ jobId' # "" => /\ pollInterval' >= initialPollInterval * Scale
                         /\ pollInterval' <= maxPollInterval * Scale]_vars

C5_Witness ==
    /\ Polling /\ pc = "wait" /\ nCatch >= 1
    /\ pollInterval = maxPollInterval * Scale

(* C6: the loop never runs past its budget: while polling, and when the    *)
(* timeout is declared, the time since startTime is at most maxWaitTime.   *)
C6_NeverPastBudget == Polling => Elapsed <= maxWaitTime

(* C7: in the legacy handler, when every poll read a non-terminal status   *)
(* until the budget ran out, the caller receives HTTP 408.                 *)
C7_TimeoutIs408 ==
    (variant = "part000" /\ Polling /\ allPending /\ pc = "done"
     /\ responses # <<>> /\ IsFailure(responses[1]))
        => responses[1].status = 408

(* C8: a submit response read with status COMPLETED and an image gives     *)
(* {success: true, imageUrl} for that image, with no wait and no status    *)
(* query at all.                                                           *)
C8_ImmediateCompletion ==
    (lastRead.src = "submit" /\ WasRead(lastRead.reply)
     /\ lastRead.reply.status = "COMPLETED" /\ lastRead.reply.image # NoImage)
        => /\ pc = "done"
           /\ responses = <<SuccessResponse(lastRead.reply.image)>>
           /\ nWait = 0 /\ nStatus = 0 /\ nAlt = 0 /\ ~Polling

C8_Witness ==
    /\ lastRead.src = "submit" /\ lastRead.reply.status = "COMPLETED"
    /\ lastRead.reply.image = GeneratedImage /\ Ok(lastRead.reply)
    /\ responses = <<SuccessResponse(GeneratedImage)>>

(* C9: when submit started a job and every primary read so far returned a  *)
(* non-terminal status, no response has been sent within the budget, no    *)
(* iteration went through catch and no alternate query was made; when the  *)
(* k-th read then returns COMPLETED with an image the caller receives      *)
(* success after exactly k primary queries and k waits.                    *)
C9_SuccessAfterExactlyKPolls ==
    /\ (Polling /\ allPending)
          => /\ nAlt = 0 /\ nCatch = 0 /\ nWait = nStatus
             /\ \/ (pc \in {"wait", "status"} /\ responses = <<>>)
                \/ (pc = "done" /\ Elapsed >= maxWaitTime)
    /\ (Polling /\ prevPending /\ PrimaryRead
         /\ lastRead.reply.status = "COMPLETED"
         /\ lastRead.reply.image # NoImage)
          => /\ nAlt = 0 /\ nCatch = 0 /\ nWait = nStatus
             /\ pc = "done"
             /\ responses = <<SuccessResponse(lastRead.reply.image)>>

C9_Witness ==
    /\ Polling /\ prevPending /\ PrimaryRead
    /\ lastRead.reply.status = "COMPLETED"
    /\ nStatus = 3 /\ nWait = 3 /\ nAlt = 0
    /\ responses = <<SuccessResponse(GeneratedImage)>>

----------------------------------------------------------------------------
(* Properties of the rate limiter (SpecRL) *)

(* C10: a request of a client whose entry has count =                      *)
(* MAX_REQUESTS_PER_WINDOW and whose window has not elapsed is answered    *)
(* 429 and leaves the client's entry (firstRequest and count) unchanged.   *)
C10_RejectionLeavesEntryUnchanged ==
    [][(/\ pc = "idle" /\ pc' # "idle"
        /\ method = "POST" /\ envConfigured
        /\ requestCounts[clientId].count = MAX_REQUESTS_PER_WINDOW
        /\ now - requestCounts[clientId].firstRequest <= RATE_LIMIT_WINDOW)
          => /\ pc' = "done"
             /\ responses' = <<TooManyRequests>>
             /\ requestCounts'[clientId] = requestCounts[clientId]]_vars

C10_Witness ==
    /\ pc = "done" /\ responses = <<TooManyRequests>>
    /\ requestCounts[clientId].count = MAX_REQUESTS_PER_WINDOW
    /\ now - requestCounts[clientId].firstRequest = RATE_LIMIT_WINDOW

(* C11: a request of a client whose window has elapsed (now - firstRequest *)
(* above RATE_LIMIT_WINDOW) is let through and leaves the entry            *)
(* {firstRequest: now, count: 1}, whatever the count was before, the       *)
(* maximum included.                                                       *)
C11_ElapsedWindowStartsAfresh ==
    [][(/\ pc = "idle" /\ pc' # "idle"
        /\ method = "POST" /\ envConfigured
        /\ requestCounts[clientId] # Absent
        /\ now - requestCounts[clientId].firstRequest > RATE_LIMIT_WINDOW)
       => (/\ pc' = "parse"
           /\ responses' = <<>>
           /\ requestCounts'[clientId] =
                  [firstRequest |-> now, count |-> 1])]_vars

C11_Witness ==
    /\ pc = "parse"
    /\ entryBefore # Absent
    /\ entryBefore.count = MAX_REQUESTS_PER_WINDOW
    /\ now - entryBefore.firstRequest > RATE_LIMIT_WINDOW
    /\ requestCounts[clientId] = [firstRequest |-> now, count |-> 1]

(* C12: every entry of the Map has a count from 1 to                       *)
(* MAX_REQUESTS_PER_WINDOW, so that at most MAX_REQUESTS_PER_WINDOW        *)
(* requests of one client are let through within one window.               *)
C12_CountWithinBounds ==
    \A k \in Clients :
        /\ requestCounts[k] # Absent =>
              /\ requestCounts[k].count >= 1
              /\ requestCounts[k].count <= MAX_REQUESTS_PER_WINDOW
        /\ passes[k] <= MAX_REQUESTS_PER_WINDOW

C12_Witness ==
    /\ pc = "done"
    /\ responses = <<TooManyRequests>>
    /\ entryBefore # Absent
    /\ entryBefore.count = MAX_REQUESTS_PER_WINDOW
    /\ requestCounts[clientId].count = MAX_REQUESTS_PER_WINDOW
    /\ passes[clientId] = MAX_REQUESTS_PER_WINDOW

(* C13: the handlers of concurrent requests interleave at every await, and *)
(* in no interleaving are more than MAX_REQUESTS_PER_WINDOW requests of    *)
(* one client let through within one window, nor is an increment lost: the *)
(* count of an entry is the number of requests of that client let through  *)
(* since its firstRequest.                                                 *)
C13_NoLostIncrement ==
    \A k \in Clients :
        /\ passes[k] <= MAX_REQUESTS_PER_WINDOW
        /\ passes[k] = requestCounts[k].count

C13_Witness ==
    /\ pc = "upload"
    /\ entryBefore # Absent
    /\ requestCounts[clientId].firstRequest = entryBefore.firstRequest
    /\ requestCounts[clientId].count = MAX_REQUESTS_PER_WINDOW
    /\ entryBefore.count < MAX_REQUESTS_PER_WINDOW - 1
    /\ passes[clientId] = MAX_REQUESTS_PER_WINDOW

(* C15: within one call of uploadImageToHost, Imgur is contacted exactly   *)
(* when the ImgBB key is not set or the ImgBB attempt failed (it threw or  *)
(* answered success = false).                                              *)
C15_ImgurIffPrimaryUnavailable ==
    \A i \in Images :
        up[i].at \notin {"idle", "imgbb"} =>
            ((\E n \in 1..Len(up[i].tried) : up[i].tried[n] = "imgur")
             <=> (~imgbbApiKey \/ up[i].primary = "failed"))

C15_Witness ==
    /\ imgbbApiKey
    /\ up["user"].tried = <<"imgbb", "imgur">>
    /\ up["user"].primary = "failed"
    /\ up["clothing"].at = "ok"
    /\ up["clothing"].tried = <<"imgbb">>

(* C16: uploadImageToHost throws 'All image upload services failed' only   *)
(* when every configured provider was tried and failed; when a provider it *)
(* tried answers success, the call returns the URL of that provider and    *)
(* does not throw.                                                         *)
C16_FailsOnlyWhenAllFailed ==
    \A i \in Images :
        /\ up[i].at = "failed" =>
              /\ up[i].secondary = "failed"
              /\ up[i].tried = (IF imgbbApiKey THEN <<"imgbb", "imgur">>
                                ELSE <<"imgur">>)
              /\ imgbbApiKey => up[i].primary = "failed"
        /\ up[i].primary = "ok" =>
              up[i].at = "ok" /\ up[i].url = "https://imgbb/" \o i
        /\ up[i].secondary = "ok" =>
              up[i].at = "ok" /\ up[i].url = "https://imgur/" \o i

C16_Witness ==
    /\ imgbbApiKey
    /\ up["user"].at = "failed"
    /\ up["user"].primary = "failed" /\ up["user"].secondary = "failed"
    /\ up["clothing"].at = "ok"
    /\ up["clothing"].secondary = "ok"
    /\ up["clothing"].url = "https://imgur/clothing"

(* C17: in the legacy handler, when all hosting providers fail for either  *)
(* image the caller receives HTTP 502 and no submit request is ever sent.  *)
C17_UploadFailureIs502 ==
    (variant = "part000" /\ \E i \in Images : up[i].at = "failed")
    => /\ pc = "done"
       /\ Len(responses) = 1
       /\ responses[1].status = 502
       /\ nSubmit = 0

C17_Witness ==
    /\ variant = "part000"
    /\ up["clothing"].at = "failed"
    /\ up["user"].at = "ok"
    /\ pc = "done"
    /\ responses[1].status = 502
    /\ responses[1].body.message =
          "Error uploading images to processing service. Please try again."

(* C18: every failure response (400, 405, 408, 413, 429, 500, 502) has a   *)
(* JSON body with both an error field and a message field.                 *)
C18_FailureBodiesHaveErrorAndMessage ==
    \A n \in 1..Len(responses) :
        IsFailure(responses[n]) =>
            {"error", "message"} \subseteq DOMAIN responses[n].body

(* C19: OPTIONS is answered 200 with no body, POST goes on to processing,  *)
(* every other method is answered 405; for OPTIONS and for 405 nothing     *)
(* else happens: no rate-limit update, no parsing, no outbound call.       *)
C19_MethodDispatch ==
    [][(pc = "idle" /\ pc' # "idle") =>
        /\ method = "OPTIONS" =>
              /\ responses' = <<[status |-> 200]>>
              /\ pc' = "done"
              /\ UNCHANGED <<limiter, up, runpodPayload, lastRead, counters>>
        /\ method \notin {"OPTIONS", "POST"} =>
              /\ Len(responses') = 1
              /\ responses'[1].status = 405
              /\ pc' = "done"
              /\ UNCHANGED <<limiter, up, runpodPayload, lastRead, counters>>
        /\ method = "POST" =>
              \/ pc' = "parse" /\ responses' = <<>>
              \/ /\ Len(responses') = 1
                 /\ responses'[1].status \notin {200, 405}]_vars

C19_Witness ==
    /\ pc = "done"
    /\ method = "GET"
    /\ responses = <<MethodNotAllowed>>
    /\ \E k \in Clients :
          /\ requestCounts[k] # Absent
          /\ now - requestCounts[k].firstRequest > RATE_LIMIT_WINDOW

(* C20: when the backend answers the submit request with a non-success     *)
(* HTTP status, the handler sends a failure response and never enters the  *)
(* poll loop, whatever the JSON body says (IN_PROGRESS with an id,         *)
(* COMPLETED with an image).                                               *)
C20_NonSuccessSubmitFails ==
    (/\ lastRead.src = "submit"
     /\ lastRead.reply.kind = "json"
     /\ ~Ok(lastRead.reply))
    => /\ pc = "done"
       /\ Len(responses) = 1
       /\ IsFailure(responses[1])
       /\ ~Polling

(* C14: for every request that carries both images, on every execution    *)
(* path the handler sends exactly one response: never two, and never none  *)
(* once it has finished.                                                   *)
C14_ExactlyOneResponse ==
    (\A i \in Images : up[i].at # "idle")
    => /\ Len(responses) <= 1
       /\ pc = "done" <=> Len(responses) = 1

C14_Witness ==
    /\ pc = "done"
    /\ \A i \in Images : up[i].at = "failed"
    /\ Len(responses) = 1
    /\ IsFailure(responses[1])

(* C21: when the submit response has status IN_PROGRESS and no job id, the *)
(* request fails at once: a failure response is sent and no wait and no    *)
(* status query is ever performed.                                         *)
C21_MissingJobIdFails ==
    (/\ lastRead.src = "submit"
     /\ WasRead(lastRead.reply)
     /\ lastRead.reply.status = "IN_PROGRESS"
     /\ lastRead.reply.id = "")
    => /\ pc = "done"
       /\ Len(responses) = 1
       /\ IsFailure(responses[1])
       /\ ~Polling
       /\ nWait = 0 /\ nStatus = 0 /\ nAlt = 0

C21_Witness ==
    /\ lastRead.src = "submit"
    /\ Ok(lastRead.reply)
    /\ lastRead.reply.kind = "json"
    /\ lastRead.reply.status = "IN_PROGRESS"
    /\ lastRead.reply.id = ""
    /\ pc = "done"
    /\ IsFailure(responses[1])

(* C22: when the status of the submit response is FAILED, CANCELLED or any *)
(* value other than IN_PROGRESS (IN_QUEUE, no status, COMPLETED without an *)
(* image), the handler sends a failure response and does not poll; polling *)
(* starts only for IN_PROGRESS with a job id.                              *)
C22_OnlyInProgressPolls ==
    [][(pc = "submit" /\ pc' # "submit") =>
        /\ pc' = "wait" =>
              /\ lastRead'.reply.kind = "json"
              /\ lastRead'.reply.status = "IN_PROGRESS"
              /\ lastRead'.reply.id # ""
        /\ (/\ lastRead'.reply.kind = "json"
            /\ lastRead'.reply.status # "IN_PROGRESS"
            /\ ~(lastRead'.reply.status = "COMPLETED"
                 /\ HasImage(lastRead'.reply)))
           => /\ pc' = "done"
              /\ Len(responses') = 1
              /\ IsFailure(responses'[1])
              /\ jobId' = ""
              /\ nWait' = 0 /\ nStatus' = 0 /\ nAlt' = 0]_vars

C22_Witness ==
    /\ lastRead.src = "submit"
    /\ Ok(lastRead.reply)
    /\ lastRead.reply.kind = "json"
    /\ lastRead.reply.status = "IN_QUEUE"
    /\ lastRead.reply.id # ""
    /\ pc = "done"
    /\ IsFailure(responses[1])
    /\ nWait = 0

(* C23: in the classifying handler every backend-stage failure (submit or  *)
(* poll status FAILED or CANCELLED, a missing job id, a non-success submit *)
(* HTTP status, an unexpected submit status) is reported as HTTP 502.      *)
C23_BackendFailureIs502 ==
    (/\ variant = "part000"
     /\ lastRead.src = "submit"
     /\ lastRead.reply.kind = "json"
     /\ pc = "done"
     /\ Len(responses) = 1
     /\ IsFailure(responses[1]))
    => responses[1].status = 502

(* C24: unless NODE_ENV is 'development', a failure response does not      *)
(* carry the internal error message: its body is fixed by the rule that    *)
(* classified the error (two failures of one rule get the same body, up to *)
(* requestId), and details is there, equal to error.message, only when     *)
(* NODE_ENV is 'development'.                                              *)
C24_NoInternalDetail ==
    \A n \in 1..Len(responses) :
        "cause" \in DOMAIN responses[n] =>
            LET r == responses[n]
                b == r.body
            IN  /\ nodeEnv = "development" =>
                      "details" \in DOMAIN b /\ b.details = r.cause
                /\ nodeEnv # "development" =>
                      /\ \A f \in DOMAIN b : ~Includes(b[f], r.cause)
                      /\ b = IF variant = "generate"
                             THEN [error |-> "Failed to generate image",
                                   message |-> GenericMessage]
                             ELSE [error |-> "Failed to generate image",
                                   message |-> Classify(r.cause).errorMessage,
                                   requestId |-> RequestIdTag]
                      /\ variant # "generate" =>
                            r.status = Classify(r.cause).statusCode

C24_Witness ==
    /\ variant = "part000"
    /\ nodeEnv = "production"
    /\ pc = "done"
    /\ Len(responses) = 1
    /\ responses[1].status = 502
    /\ "cause" \in DOMAIN responses[1]
    /\ Includes(responses[1].cause, "RunPod API error: 500")
    /\ DOMAIN responses[1].body = {"error", "message", "requestId"}

(* C25: every request that passes rate limiting eventually receives a      *)
(* response, even when an outbound call (upload, submit, status query)     *)
(* never completes.                                                        *)
C25_EventuallyResponds == (pc = "parse") ~> (Len(responses) = 1)

(* C26: for one inbound request the handler sends at most one submit       *)
(* request and polls at most one job id: it never submits again and never  *)
(* polls a second job, on any path, errors and retries included.           *)
C26_OneSubmitOneJob ==
    [][/\ nSubmit' <= 1
       /\ pc' = "submit" => pc \in {"upload", "submit"}
       /\ lastRead'.src = "submit" => lastRead.src \in {"none", "submit"}
       /\ jobId # "" => jobId' = jobId]_vars

C26_Witness ==
    /\ nSubmit = 1
    /\ jobId = "job-1"
    /\ nCatch = MaxPollErrors
    /\ nAlt >= 1
    /\ nStatus >= 3
    /\ pc = "done"
    /\ \E i \in Images : up[i].tried = <<"imgbb", "imgur">>

(* C27: poll iterations are strictly sequential wait-then-check: a query   *)
(* is sent only when none is outstanding, every primary status query comes *)
(* right after a completed wait of the current pollInterval, and the first *)
(* one only after the initial wait of 10000 ms.                            *)
C27_WaitThenCheck ==
    [][/\ nStatus' # nStatus =>
             /\ pc = "wait" /\ pc' = "status"
             /\ nStatus' = nStatus + 1
             /\ nWait' = nWait + 1
             /\ (now' - now) * Scale >= pollInterval
       /\ nAlt' # nAlt =>
             /\ pc = "status" /\ pc' = "alt"
             /\ nAlt' = nAlt + 1
             /\ nStatus' = nStatus
       /\ (nStatus = 0 /\ nStatus' = 1) => now' - startTime >= 10000]_vars

C27_Witness ==
    /\ pc = "status"
    /\ nStatus = 3 /\ nWait = 3
    /\ nAlt = 1
    /\ pollInterval = 12000 * Scale
    /\ now - startTime >= 10000 + 10000 + 12000

(* C28: the two uploads of a request are started together and interleave   *)
(* freely; the submit request is sent only after both uploads have         *)
(* returned a URL, and it carries both: model_img is the URL of the user   *)
(* image, cloth_img that of the clothing image.                            *)
C28_SubmitCarriesBothUrls ==
    /\ up["user"].at = "idle" <=> up["clothing"].at = "idle"
    /\ nSubmit = 0 => runpodPayload = NoPayload
    /\ nSubmit > 0 =>
          /\ \A i \in Images : up[i].at = "ok" /\ up[i].url # ""
          /\ runpodPayload.model_img = up["user"].url
          /\ runpodPayload.cloth_img = up["clothing"].url
          /\ runpodPayload.model_img # runpodPayload.cloth_img

C28_Witness ==
    /\ pc = "submit"
    /\ nSubmit = 1
    /\ up["user"].tried = <<"imgbb", "imgur">>
    /\ up["clothing"].tried = <<"imgbb">>
    /\ runpodPayload = [model_img |-> "https://imgur/user",
                        cloth_img |-> "https://imgbb/clothing"]

(* C29: after every poll iteration that does not end the loop, whether the *)
(* status read returned a continuing status or the iteration was           *)
(* inconclusive because of an error, pollInterval becomes                  *)
(* min(pollInterval * 1.2, 30000) before the next wait.                    *)
C29_IntervalGrowsEveryIteration ==
    [][(pc \in {"status", "alt"} /\ pc' = "wait") =>
          pollInterval' = Min((pollInterval * 12) \div 10, 30000 * Scale)]_vars

(* C30: in every poll iteration whose primary status query fails with a    *)
(* transport or HTTP error, the handler makes exactly one query to the     *)
(* alternate URL in that iteration, before the next wait.                  *)
C30_AlternateAfterFailedQuery ==
    [][(/\ pc = "status" /\ pc' # "status"
        /\ \/ lastRead'.reply.kind = "throw"
           \/ ~Ok(lastRead'.reply))
       => (pc' = "alt" /\ nAlt' = nAlt + 1)]_vars

(* C31: within one call of uploadImageToHost each provider is tried at     *)
(* most once, ImgBB before Imgur: a provider that failed is not tried      *)
(* again and ImgBB is never tried after Imgur.                             *)
C31_OrderedFallbackNoRetry ==
    \A i \in Images :
        \A m, n \in 1..Len(up[i].tried) :
            m < n => up[i].tried[m] = "imgbb" /\ up[i].tried[n] = "imgur"

C31_Witness ==
    /\ imgbbApiKey
    /\ \A i \in Images :
          /\ up[i].at = "failed"
          /\ up[i].tried = <<"imgbb", "imgur">>
          /\ up[i].primary = "failed" /\ up[i].secondary = "failed"

(* C32: generateRequestId never returns an id that an earlier call of the  *)
(* same process has returned, whatever the clock, the counter and the      *)
(* random bytes are.                                                       *)
C32_NoIdReturnedTwice ==
    \A m, n \in 1..Len(requestIds) :
        m # n => requestIds[m] # requestIds[n]

(* C33: a response {success: true, imageUrl} is sent only when the         *)
(* response of the backend that was read last (submit, primary status or   *)
(* alternate status) has status COMPLETED and an image, and imageUrl is    *)
(* that image; it is the only response of the request, and the rate        *)
(* limiter, the validation, both uploads and the submit stage have passed. *)
C33_SuccessOnlyFromCompletedJob ==
    \A k \in 1..Len(responses) :
        IsSuccess(responses[k])
        => /\ Len(responses) = 1
           /\ lastRead.src \in {"submit", "status", "alt"}
           /\ lastRead.reply.kind = "json"
           /\ lastRead.reply.status = "COMPLETED"
           /\ HasImage(lastRead.reply)
           /\ responses[k].body.imageUrl = lastRead.reply.image
           /\ method = "POST" /\ envConfigured
           /\ requestCounts[clientId] # Absent
           /\ \A i \in Images : up[i].at = "ok"
           /\ nSubmit = 1

C33_Witness ==
    /\ Len(responses) = 1
    /\ responses[1] = SuccessResponse(GeneratedImage)
    /\ lastRead.src = "alt"
    /\ up["user"].tried = <<"imgbb", "imgur">>

(* C34: the alternate status URL is queried only in a poll iteration whose *)
(* primary status query itself failed, with a transport error or with an   *)
(* HTTP status that is not a success; an iteration whose primary query was  *)
(* read and returned a status does not query the alternate URL.            *)
C34_AlternateOnlyAfterFailedQuery ==
    [][(pc = "status" /\ pc' = "alt")
       => \/ lastRead'.reply.kind = "throw"
          \/ ~Ok(lastRead'.reply)]_vars

(* C35: the answer of the alternate status URL ends the poll loop only     *)
(* with the success response (status COMPLETED with an image).  After any  *)
(* other answer nothing is sent for it and the loop goes on to its test    *)
(* with pollInterval unchanged: the next wait starts, or the test finds    *)
(* the budget used up and the timeout is raised.                           *)
C35_AlternateEndsLoopOnlyWithSuccess ==
    [][(pc = "alt" /\ pc' # "alt")
       => /\ pollInterval' = pollInterval
          /\ \/ /\ lastRead'.reply.kind = "json"
                /\ lastRead'.reply.status = "COMPLETED"
                /\ HasImage(lastRead'.reply)
                /\ responses' = Append(responses,
                                       SuccessResponse(lastRead'.reply.image))
             \/ /\ pc' = "wait"
                /\ responses' = responses
             \/ /\ now' - startTime >= maxWaitTime
                /\ responses' = Append(responses,
                       OuterCatch(TimeoutMessage(now' - startTime)))]_vars

C35_Witness ==
    /\ lastRead.src = "alt"
    /\ lastRead.reply.kind = "json"
    /\ lastRead.reply.status = "FAILED"
    /\ Ok(lastRead.reply)
    /\ pc = "wait"
    /\ responses = <<>>
    /\ nAlt = 1

C38_OneUnitPerAdmittedRequest ==
    [][/\ (pc = "idle" /\ pc' # "idle" /\ method = "POST" /\ envConfigured
           /\ responses' # <<TooManyRequests>>)
         => /\ pc' = "parse"
            /\ requestCounts'[clientId] =
                 IF \/ requestCounts[clientId] = Absent
                    \/ now - requestCounts[clientId].firstRequest
                          > RATE_LIMIT_WINDOW
                 THEN [firstRequest |-> now, count |-> 1]
                 ELSE [requestCounts[clientId] EXCEPT !.count = @ + 1]
       /\ (pc # "idle" /\ (pc' # pc \/ up' # up \/ responses' # responses))
         => requestCounts' = requestCounts
       /\ \A k \in Clients :
            (/\ requestCounts[k] # Absent /\ requestCounts'[k] # Absent
             /\ requestCounts'[k].firstRequest = requestCounts[k].firstRequest)
            => /\ requestCounts'[k].count >= requestCounts[k].count
               /\ requestCounts'[k].count <= requestCounts[k].count + 1]_vars

C38_Witness ==
    /\ pc = "done"
    /\ Len(responses) = 1 /\ IsFailure(responses[1])
    /\ responses[1] # TooManyRequests
    /\ entryBefore # Absent
    /\ requestCounts[clientId] =
         [entryBefore EXCEPT !.count = entryBefore.count + 1]

(* C39: the request of one client changes the entry of another client in   *)
(* one way only: the entry is deleted when its window is over (now -       *)
(* firstRequest > 60000); otherwise count and firstRequest of the other    *)
(* client stay as they are.  A request answered 429 starts no form parsing *)
(* and sends nothing to a hosting provider or to the backend.              *)
C39_OtherClientsUntouched ==
    [][(pc = "idle" /\ pc' # "idle")
       => /\ \A k \in Clients \ {clientId} :
               requestCounts'[k] =
                 IF /\ method = "POST" /\ envConfigured
                    /\ requestCounts[k] # Absent
                    /\ now - requestCounts[k].firstRequest > 60000
                 THEN Absent
                 ELSE requestCounts[k]
          /\ responses' = <<TooManyRequests>>
               => /\ pc' = "done"
                  /\ up' = [i \in Images |-> NotStarted]
                  /\ nSubmit' = 0 /\ nStatus' = 0 /\ nAlt' = 0]_vars

C39_Witness ==
    /\ pc = "done" /\ responses = <<TooManyRequests>>
    /\ \E k \in Clients \ {clientId} :
          /\ requestCounts[k] # Absent
          /\ requestCounts[k].count >= 2
          /\ now - requestCounts[k].firstRequest <= RATE_LIMIT_WINDOW
          /\ requestCounts[k].firstRequest > requestCounts[clientId].firstRequest

====
